---- MODULE Spec2Model ----
(***************************************************************************)
(* A model of the retrieval-and-grounding pipeline of the RAG investment   *)
(* analyzer: sentence chunking, the LanceDB vector index service, the      *)
(* document ingestion job (processDocument run by the Bull worker), the    *)
(* document routes and query processing (processQuery).                    *)
(***************************************************************************)
EXTENDS Integers, Sequences, FiniteSets, TLC

(***************************************************************************)
(* Text.  A string is a sequence of symbols.  "w" is one token of ordinary *)
(* text, "." one token of sentence-terminal punctuation (the class [.!?]), *)
(* " " one token of whitespace and "W" abbreviates a run of 400 tokens of  *)
(* ordinary text, so that documents filling the 800-token chunks of the    *)
(* ingestion job stay short.                                               *)
(***************************************************************************)
Symbols == {"w", ".", " "}

IsTerminal(c) == c = "."

IsSpace(c) == c = " "

\* tokens the encoder produces for one symbol
TokensOf(c) == IF c = "W" THEN 400 ELSE 1

RECURSIVE tokensIn(_, _, _)
\* tokens of the symbols s[lo..hi], summed by halves
tokensIn(s, lo, hi) ==
  IF lo > hi THEN 0
  ELSE IF lo = hi THEN TokensOf(s[lo])
  ELSE LET mid == (lo + hi) \div 2
       IN tokensIn(s, lo, mid) + tokensIn(s, mid + 1, hi)

\* chunking.ts countTokens: encoder.encode(text).length
countTokens(s) == tokensIn(s, 1, Len(s))

RECURSIVE trimStart(_)
trimStart(s) ==
  IF s # <<>> /\ IsSpace(Head(s)) THEN trimStart(Tail(s)) ELSE s

RECURSIVE trimEnd(_)
trimEnd(s) ==
  IF s # <<>> /\ IsSpace(s[Len(s)]) THEN trimEnd(SubSeq(s, 1, Len(s) - 1)) ELSE s

\* String.prototype.trim
trim(s) == trimEnd(trimStart(s))

RECURSIVE join(_)
\* Array.prototype.join(' ')
join(parts) ==
  IF parts = <<>> THEN <<>>
  ELSE IF Len(parts) = 1 THEN parts[1]
  ELSE parts[1] \o <<" ">> \o join(Tail(parts))

\* Array.prototype.slice(-3)
sliceLast3(parts) ==
  IF Len(parts) <= 3 THEN parts ELSE SubSeq(parts, Len(parts) - 2, Len(parts))

RECURSIVE runEnd(_, _, _)
\* last position of the maximal run of symbols of one class starting at i
\* (term = TRUE: terminal punctuation, FALSE: anything else); i - 1 when empty
runEnd(s, i, term) ==
  IF i <= Len(s) /\ IsTerminal(s[i]) = term THEN runEnd(s, i + 1, term) ELSE i - 1

\* positions where a match of /[^.!?]+[.!?]+/g starts: the first symbol of a
\* maximal run of non-terminal symbols that terminal punctuation follows
matchStarts(s) ==
  {i \in 1..Len(s) :
     /\ ~IsTerminal(s[i])
     /\ (i = 1 \/ IsTerminal(s[i - 1]))
     /\ runEnd(s, i, FALSE) < Len(s)}

\* text.match(/[^.!?]+[.!?]+/g): the successive leftmost greedy matches, each
\* the run of non-terminal symbols with the run of terminal punctuation after
\* it; <<>> when there is none (match returns null)
matchSentences(s) ==
  LET starts == matchStarts(s)
      rank == [i \in starts |-> Cardinality({j \in starts : j <= i})]
      nth(k) == CHOOSE i \in starts : rank[i] = k
  IN [k \in 1..Cardinality(starts) |->
        SubSeq(s, nth(k), runEnd(s, runEnd(s, nth(k), FALSE) + 1, TRUE))]

\* const sentences = text.match(/[^.!?]+[.!?]+/g) || [text]
splitSentences(text) ==
  LET m == matchSentences(text) IN IF m = <<>> THEN <<text>> ELSE m

overlapCarryAlways(currentChunk, overlap) == sliceLast3(currentChunk)

\* overlap step when a chunk is saved: keep the last three sentences if they
\* count fewer than `overlap` tokens, otherwise start empty
overlapCarry(currentChunk, overlap) ==
  IF countTokens(join(sliceLast3(currentChunk))) < overlap
  THEN sliceLast3(currentChunk)
  ELSE <<>>

\* one iteration of the for-loop of chunkTextBySentences on `sentence`; st is
\* the loop state [buffers, currentChunk, currentTokenCount, carried], a saved
\* buffer being recorded as [sents: the sentences of currentChunk, carried:
\* how many of them were kept from the previous buffer]
sentenceStep(st, sentence, chunkSize, overlap) ==
  LET sentenceTokens == countTokens(sentence)
      kept == overlapCarry(st.currentChunk, overlap)
  IN IF st.currentTokenCount + sentenceTokens > chunkSize /\ Len(st.currentChunk) > 0
     THEN [buffers |-> Append(st.buffers,
                         [sents |-> st.currentChunk, carried |-> st.carried]),
           currentChunk |-> Append(kept, sentence),
           currentTokenCount |-> countTokens(join(kept)) + sentenceTokens,
           carried |-> Len(kept)]
     ELSE [st EXCEPT !.currentChunk = Append(@, sentence),
                     !.currentTokenCount = @ + sentenceTokens]

RECURSIVE sentenceLoop(_, _, _, _, _, _)
\* the loop state after the for-loop has run over sentences[lo..hi] from the
\* state st, the range being taken by halves: the state after the first half
\* is computed before the second half starts from it (currentChunk holds at
\* least the sentence pushed last, so the second half always runs)
sentenceLoop(sentences, lo, hi, st, chunkSize, overlap) ==
  IF lo > hi THEN st
  ELSE IF lo = hi THEN sentenceStep(st, sentences[lo], chunkSize, overlap)
  ELSE LET mid == (lo + hi) \div 2
           half == sentenceLoop(sentences, lo, mid, st, chunkSize, overlap)
       IN IF Len(half.currentChunk) > 0
          THEN sentenceLoop(sentences, mid + 1, hi, half, chunkSize, overlap)
          ELSE half

\* the sentence buffers chunkTextBySentences saves, in order: those of the
\* for-loop, then the final chunk if currentChunk is not empty
sentenceBuffers(text, chunkSize, overlap) ==
  LET sentences == splitSentences(text)
      st == sentenceLoop(sentences, 1, Len(sentences),
              [buffers |-> <<>>, currentChunk |-> <<>>,
               currentTokenCount |-> 0, carried |-> 0],
              chunkSize, overlap)
  IN IF Len(st.currentChunk) > 0
     THEN Append(st.buffers, [sents |-> st.currentChunk, carried |-> st.carried])
     ELSE st.buffers

\* chunks.push({ text: chunkText, tokenCount: countTokens(chunkText) })
bufferChunk(b) ==
  LET chunkText == trim(join(b.sents))
  IN [text |-> chunkText, tokenCount |-> countTokens(chunkText)]

\* chunking.ts chunkTextBySentences(text, { chunkSize, overlap })
chunkTextBySentences(text, chunkSize, overlap) ==
  LET bs == sentenceBuffers(text, chunkSize, overlap)
  IN [i \in 1..Len(bs) |-> bufferChunk(bs[i])]

(***************************************************************************)
(* State.                                                                  *)
(***************************************************************************)
VARIABLES
  fnIn,         \* arguments of the last direct call of an exported function
  fnOut,        \* what that call returned or threw
  lance,        \* the LanceDB dataset on disk: [exists, rows]
  tableHandle,  \* per process: config/lancedb.ts `table` is non-null
  pool,         \* documents not uploaded yet
  documents,    \* prisma.document rows, by id
  chunkRows,    \* prisma.documentChunk rows
  jobs,         \* Bull jobs of the document-processing queue, by document
  run,          \* per process: the processDocument invocation of its worker
  queries,      \* prisma.query rows of the query last submitted
  queryResults, \* prisma.queryResult rows of that query
  citations     \* prisma.citation rows of that query

vars == <<fnIn, fnOut, lance, tableHandle, pool, documents, chunkRows, jobs, run,
          queries, queryResults, citations>>

queryVars == <<queries, queryResults, citations>>

indexVars == <<lance, tableHandle>>

storeVars == <<pool, documents, chunkRows, jobs, run, queryVars>>

NoCall == [fn |-> "none"]

Procs == {"p1", "p2"}

(***************************************************************************)
(* The vector index: config/lancedb.ts and services/lancedb.service.ts.    *)
(* A row is [id, text, vector, documentId, companyTicker, documentType,    *)
(* chunkIndex]; rows are kept in insertion order.  Vectors are numbers and *)
(* the distance of two vectors is their absolute difference.               *)
(***************************************************************************)
NoTable == [exists |-> FALSE, rows |-> <<>>]

\* getTable(): db is connected at start-up, so the cached handle is returned;
\* null (FALSE) until this process has created the table
getTable(p) == tableHandle[p]

\* addChunks: const data = chunks.map(c => ({ id, text, vector, ...metadata }))
flatten(c) ==
  [id |-> c.id, text |-> c.text, vector |-> c.embedding,
   documentId |-> c.metadata.documentId,
   companyTicker |-> c.metadata.companyTicker,
   documentType |-> c.metadata.documentType,
   chunkIndex |-> c.metadata.chunkIndex]

\* table.add(data): the rows are appended to the table
tableAdd(rows, data) == rows \o data

\* addChunks(chunks) succeeding in process p: the table is created with the
\* data when this process holds no handle (db.createTable refuses an
\* existing table), otherwise the data is added to it
addChunksOk(p, chunks) ==
  LET data == [k \in 1..Len(chunks) |-> flatten(chunks[k])]
  IN IF ~getTable(p)
     THEN /\ ~lance.exists
          /\ Len(data) > 0
          /\ lance' = [exists |-> TRUE, rows |-> data]
          /\ tableHandle' = [tableHandle EXCEPT ![p] = TRUE]
     ELSE /\ lance' = [lance EXCEPT !.rows = tableAdd(@, data)]
          /\ UNCHANGED tableHandle

\* addChunks(chunks) throwing 'Failed to add chunks to LanceDB': createTable
\* on an existing table or on no data, or the store failing; nothing is written
addChunksFail(p, chunks) == UNCHANGED <<lance, tableHandle>>

\* deleteChunksByDocument: table.delete(`documentId = '${documentId}'`)
RECURSIVE deleteRows(_, _)
deleteRows(rows, documentId) ==
  IF rows = <<>> THEN <<>>
  ELSE IF Head(rows).documentId = documentId THEN deleteRows(Tail(rows), documentId)
  ELSE <<Head(rows)>> \o deleteRows(Tail(rows), documentId)

deleteChunksByDocument(p, documentId) ==
  IF ~getTable(p)
  THEN UNCHANGED <<lance, tableHandle>>
  ELSE /\ lance' = [lance EXCEPT !.rows = deleteRows(@, documentId)]
       /\ UNCHANGED tableHandle

\* an optional argument: Undefined when it was not supplied, Some(x) otherwise
Undefined == <<>>

Some(x) == <<x>>

Given(o) == o # Undefined

ValueOf(o) == o[1]

\* query.where(predicate): QueryBase.where sets the filter of the query, so a
\* later call replaces the predicate of an earlier one
where(query, predicate) == [query EXCEPT !.filter = predicate]

\* the query searchSimilarChunks builds from its options
buildQuery(queryEmbedding, options) ==
  LET q0 == [vector |-> queryEmbedding,
             limit |-> IF Given(options.limit) THEN ValueOf(options.limit) ELSE 5,
             filter |-> [kind |-> "none", values |-> <<>>]]
      q1 == IF Given(options.companyFilter) /\ ValueOf(options.companyFilter) # ""
            THEN where(q0, [kind |-> "companyTicker",
                            values |-> <<ValueOf(options.companyFilter)>>])
            ELSE q0
      q2 == IF Given(options.documentTypes) /\ Len(ValueOf(options.documentTypes)) > 0
            THEN where(q1, [kind |-> "documentType",
                            values |-> ValueOf(options.documentTypes)])
            ELSE q1
  IN q2

\* a row satisfies the SQL predicate of the query
satisfies(row, filter) ==
  CASE filter.kind = "none" -> TRUE
    [] filter.kind = "companyTicker" -> row.companyTicker = filter.values[1]
    [] filter.kind = "documentType" ->
         \E k \in 1..Len(filter.values) : row.documentType = filter.values[k]

distance(a, b) == IF a >= b THEN a - b ELSE b - a

RECURSIVE selectRows(_, _)
selectRows(rows, filter) ==
  IF rows = <<>> THEN <<>>
  ELSE IF satisfies(Head(rows), filter)
       THEN <<Head(rows)>> \o selectRows(Tail(rows), filter)
       ELSE selectRows(Tail(rows), filter)

RECURSIVE insertByDistance(_, _, _)
\* r placed after every row of the sorted list that is at most as far as it
insertByDistance(sorted, r, v) ==
  IF sorted = <<>> THEN <<r>>
  ELSE IF distance(Head(sorted).vector, v) <= distance(r.vector, v)
       THEN <<Head(sorted)>> \o insertByDistance(Tail(sorted), r, v)
       ELSE <<r>> \o sorted

RECURSIVE sortByDistance(_, _, _)
\* rows[1..k] inserted in turn: nearest first, table order among equals
sortByDistance(rows, k, v) ==
  IF k = 0 THEN <<>>
  ELSE insertByDistance(sortByDistance(rows, k - 1, v), rows[k], v)

toArrayUnranked(rows, query) ==
  LET kept == selectRows(rows, query.filter)
  IN IF Len(kept) <= query.limit THEN kept ELSE SubSeq(kept, 1, query.limit)

\* query.toArray(): the nearest `limit` rows among those the filter keeps
toArray(rows, query) ==
  LET kept == selectRows(rows, query.filter)
      sorted == sortByDistance(kept, Len(kept), query.vector)
  IN IF Len(sorted) <= query.limit THEN sorted ELSE SubSeq(sorted, 1, query.limit)

\* results.map(result => ({ id, text, score: result._distance ?? 0, metadata }))
formatResult(row, queryEmbedding) ==
  [id |-> row.id, text |-> row.text, score |-> distance(row.vector, queryEmbedding),
   metadata |-> [documentId |-> row.documentId, companyTicker |-> row.companyTicker,
                 documentType |-> row.documentType, chunkIndex |-> row.chunkIndex]]

\* searchSimilarChunks(queryEmbedding, options) when the search succeeds
searchSimilarChunks(p, queryEmbedding, options) ==
  IF ~getTable(p) THEN <<>>
  ELSE LET results == toArray(lance.rows, buildQuery(queryEmbedding, options))
       IN [k \in 1..Len(results) |-> formatResult(results[k], queryEmbedding)]

(***************************************************************************)
(* Documents.  The file of a document, its company and its type are fixed  *)
(* at upload; extractText reads the same text at every attempt.            *)
(***************************************************************************)
DocIds == {"d1", "d2", "d3"}

\* n sentences of 801 and 802 tokens in turn ("WW." then "WWw."), none of
\* which shares a chunk
repeatSentence(n) ==
  [i \in 1..(3 * ((n + 1) \div 2) + 4 * (n \div 2)) |->
     CASE (i - 1) % 7 \in {0, 1, 3, 4} -> "W"
       [] (i - 1) % 7 = 5 -> "w"
       [] OTHER -> "."]

\* number of chunks of the long document: one more than an embedding batch
LongDocChunks == 51

DocText(d) ==
  CASE d = "d1" -> <<"W", "W", ".", " ", "W", "W", "w", ".">>
    [] d = "d2" -> <<"w", ".", " ", "w", ".">>
    [] d = "d3" -> repeatSentence(LongDocChunks)

TickerOf(d) == IF d = "d2" THEN "AAPL" ELSE "TSLA"

TypeOf(d) == IF d = "d1" THEN "FILING_10K" ELSE "FILING_10Q"

\* the embedding the provider returns for a text
Embedding(text) == countTokens(text) % 3

\* processDocument: chunkTextBySentences(text, { chunkSize: 800, overlap: 100 })
IngestChunkSize == 800

IngestOverlap == 100

\* const chunks = chunkTextBySentences(text, { chunkSize, overlap }), for
\* the text of each document
chunksOfText ==
  [d \in DocIds |-> chunkTextBySentences(DocText(d), IngestChunkSize, IngestOverlap)]

docChunks(d) == chunksOfText[d]

\* lanceId: `${documentId}_chunk_${i}`
lanceIdOf(documentId, i) == <<documentId, i>>

\* const batchSize = 50
batchSize == 50

generateEmbeddingsBatchReversed(texts) ==
  [k \in 1..Len(texts) |-> Embedding(texts[Len(texts) + 1 - k])]

\* generateEmbeddingsBatch(texts) when the provider answers:
\* response.data.map(item => item.embedding), one item per input, in order
generateEmbeddingsBatch(texts) == [k \in 1..Len(texts) |-> Embedding(texts[k])]

RECURSIVE allEmbeddings(_, _)
\* allEmbeddings after the batches chunks.slice(i, i + batchSize), ... of the
\* for-loop have been pushed
allEmbeddings(chunks, i) ==
  IF i >= Len(chunks) THEN <<>>
  ELSE LET last == IF i + batchSize < Len(chunks) THEN i + batchSize ELSE Len(chunks)
           batch == [k \in 1..(last - i) |-> chunks[i + k].text]
       IN generateEmbeddingsBatch(batch) \o allEmbeddings(chunks, i + batchSize)

\* allEmbeddings for the chunks of each document
embeddingsOfText == [d \in DocIds |-> allEmbeddings(chunksOfText[d], 0)]

\* defaultJobOptions.attempts
attempts == 3

NoDocument == [exists |-> FALSE, status |-> "NONE", processingError |-> "null",
               chunksCount |-> 0]

NoJob == [state |-> "none", attemptsMade |-> 0]

\* `writes` lists the status values the running invocation has written
Idle == [doc |-> "none", pc |-> "idle", i |-> 0, fault |-> "none",
         injected |-> FALSE, indexed |-> FALSE, error |-> "none",
         writes |-> <<>>]

\* a server process that has not been started
Off == [Idle EXCEPT !.pc = "off"]

\* the server processes that are running
Started == {p \in Procs : run[p].pc # "off"}

InitStores ==
  /\ lance = NoTable
  /\ tableHandle = [p \in Procs |-> FALSE]
  /\ documents = [d \in DocIds |-> NoDocument]
  /\ chunkRows = {}
  /\ jobs = [d \in DocIds |-> NoJob]
  /\ run = [p \in Procs |-> IF p = "p1" THEN Idle ELSE Off]
  /\ queries = {}
  /\ queryResults = {}
  /\ citations = {}

rowsOf(d) == {r \in chunkRows : r.documentId = d}

entriesOf(d) == {k \in 1..Len(lance.rows) : lance.rows[k].documentId = d}

(***************************************************************************)
(* routes/document.routes.ts                                               *)
(***************************************************************************)
\* POST /api/documents/upload: the document row is created with the default
\* status and a job is added to the queue
Upload(d) ==
  /\ d \in pool
  /\ pool' = pool \ {d}
  /\ documents' = [documents EXCEPT ![d] =
       [exists |-> TRUE, status |-> "QUEUED", processingError |-> "null",
        chunksCount |-> 0]]
  /\ jobs' = [jobs EXCEPT ![d] = [state |-> "waiting", attemptsMade |-> 0]]
  /\ UNCHANGED <<queryVars, fnIn, fnOut, lance, tableHandle, chunkRows, run>>

\* prisma.document.delete({ where: { id } }): cascades to the chunk rows and
\* the citations
documentDelete(d) ==
  /\ documents' = [documents EXCEPT ![d] = NoDocument]
  /\ chunkRows' = chunkRows \ rowsOf(d)
  /\ citations' = {c \in citations : c.documentId # d}

\* DELETE /api/documents/:id (404 when the document is not found)
DeleteDocument(d) ==
  /\ documents[d].exists
  /\ documentDelete(d)
  /\ UNCHANGED <<fnIn, fnOut, lance, tableHandle, pool, jobs, run, queries, queryResults>>

(***************************************************************************)
(* The Bull worker and services/document.service.ts processDocument, one   *)
(* action per awaited call.  A call of a collaborator may throw.           *)
(***************************************************************************)
\* the catch block is entered with the error of the failed step
toCatch(p, step, byEnvironment) ==
  run' = [run EXCEPT ![p].pc = "catch", ![p].fault = step,
                     ![p].injected = @ \/ byEnvironment,
                     ![p].error = step]

goto(p, label) == run' = [run EXCEPT ![p].pc = label]

\* a prisma.document.update that set the status has returned
wrote(p, status, label) ==
  run' = [run EXCEPT ![p].pc = label, ![p].writes = Append(@, status)]

\* documentQueue.process: the worker takes a waiting job when its previous
\* handler has settled
TakeJob(p, d) ==
  /\ run[p].pc \in {"idle", "returned", "thrown"}
  /\ jobs[d].state = "waiting"
  /\ jobs' = [jobs EXCEPT ![d].state = "active"]
  /\ run' = [run EXCEPT ![p] = [Idle EXCEPT !.doc = d, !.pc = "findUnique"]]
  /\ UNCHANGED <<queryVars, fnIn, fnOut, lance, tableHandle, pool, documents, chunkRows>>

\* const document = await prisma.document.findUnique(...); if (!document) throw
FindUnique(p) ==
  /\ run[p].pc = "findUnique"
  /\ \/ /\ documents[run[p].doc].exists
        /\ goto(p, "updateProcessing")
     \/ /\ ~documents[run[p].doc].exists
        /\ toCatch(p, "findUnique", FALSE)
     \/ toCatch(p, "findUnique", TRUE)
  /\ UNCHANGED <<queryVars, fnIn, fnOut, lance, tableHandle, pool, documents, chunkRows, jobs>>

\* await prisma.document.update({ data: { status: PROCESSING, ... } })
UpdateProcessing(p) ==
  /\ run[p].pc = "updateProcessing"
  /\ \/ /\ documents[run[p].doc].exists
        /\ documents' = [documents EXCEPT ![run[p].doc].status = "PROCESSING"]
        /\ wrote(p, "PROCESSING", "extractText")
     \/ /\ ~documents[run[p].doc].exists
        /\ toCatch(p, "updateProcessing", FALSE)
        /\ UNCHANGED documents
     \/ /\ toCatch(p, "updateProcessing", TRUE)
        /\ UNCHANGED documents
  /\ UNCHANGED <<queryVars, fnIn, fnOut, lance, tableHandle, pool, chunkRows, jobs>>

\* const text = await extractText(...); if (!text || text.trim().length === 0) throw
ExtractText(p) ==
  /\ run[p].pc = "extractText"
  /\ \/ IF trim(DocText(run[p].doc)) = <<>>
        THEN toCatch(p, "emptyText", FALSE)
        ELSE run' = [run EXCEPT ![p].pc = "embed", ![p].i = 0]
     \/ toCatch(p, "extractText", TRUE)
  /\ UNCHANGED <<queryVars, fnIn, fnOut, lance, tableHandle, pool, documents, chunkRows, jobs>>

\* for (i = 0; i < chunks.length; i += batchSize)
\*   allEmbeddings.push(...await generateEmbeddingsBatch(batch))
EmbedBatch(p) ==
  /\ run[p].pc = "embed"
  /\ \/ IF run[p].i + batchSize < Len(docChunks(run[p].doc))
        THEN run' = [run EXCEPT ![p].i = @ + batchSize]
        ELSE run' = [run EXCEPT ![p].pc = "createChunk", ![p].i = 0]
     \/ toCatch(p, "generateEmbeddingsBatch", TRUE)
  /\ UNCHANGED <<queryVars, fnIn, fnOut, lance, tableHandle, pool, documents, chunkRows, jobs>>

\* prisma.documentChunk.create refuses a lanceId that exists (@unique) and a
\* documentId that has no document row
chunkCreateAllowed(d, i) ==
  /\ documents[d].exists
  /\ \A r \in chunkRows : r.lanceId # lanceIdOf(d, i)

\* for (i = 0; i < chunks.length; i++) await prisma.documentChunk.create(...)
CreateChunk(p) ==
  LET d == run[p].doc
      i == run[p].i
  IN /\ run[p].pc = "createChunk"
     /\ \/ /\ chunkCreateAllowed(d, i)
           /\ chunkRows' = chunkRows \cup
                {[documentId |-> d, chunkIndex |-> i, lanceId |-> lanceIdOf(d, i),
                  text |-> docChunks(d)[i + 1].text, embeddingStored |-> FALSE]}
           /\ IF i + 1 < Len(docChunks(d))
              THEN run' = [run EXCEPT ![p].i = i + 1]
              ELSE run' = [run EXCEPT ![p].pc = "addChunks"]
        \/ /\ ~chunkCreateAllowed(d, i)
           /\ toCatch(p, "documentChunk.create", FALSE)
           /\ UNCHANGED chunkRows
        \/ /\ toCatch(p, "documentChunk.create", TRUE)
           /\ UNCHANGED chunkRows
     /\ UNCHANGED <<queryVars, fnIn, fnOut, lance, tableHandle, pool, documents, jobs>>

\* the chromaChunks processDocument hands to addChunks
chromaChunks(d) ==
  [k \in 1..Len(docChunks(d)) |->
     [id |-> lanceIdOf(d, k - 1), text |-> docChunks(d)[k].text,
      embedding |-> embeddingsOfText[d][k],
      metadata |-> [documentId |-> d, companyId |-> TickerOf(d),
                    companyTicker |-> TickerOf(d), documentType |-> TypeOf(d),
                    chunkIndex |-> k - 1]]]

\* await addChunks(chromaChunks)
AddChunks(p) ==
  /\ run[p].pc = "addChunks"
  /\ \/ /\ addChunksOk(p, chromaChunks(run[p].doc))
        /\ run' = [run EXCEPT ![p].pc = "updateMany", ![p].indexed = TRUE]
     \/ /\ ~getTable(p)
        /\ lance.exists
        /\ addChunksFail(p, chromaChunks(run[p].doc))
        /\ toCatch(p, "addChunks", FALSE)
     \/ /\ addChunksFail(p, chromaChunks(run[p].doc))
        /\ toCatch(p, "addChunks", TRUE)
  /\ UNCHANGED <<queryVars, fnIn, fnOut, pool, documents, chunkRows, jobs>>

\* await prisma.documentChunk.updateMany({ where: { documentId },
\*                                        data: { embeddingStored: true } })
UpdateMany(p) ==
  /\ run[p].pc = "updateMany"
  /\ \/ /\ chunkRows' = {IF r.documentId = run[p].doc
                         THEN [r EXCEPT !.embeddingStored = TRUE] ELSE r :
                         r \in chunkRows}
        /\ goto(p, "updateCompleted")
     \/ /\ toCatch(p, "documentChunk.updateMany", TRUE)
        /\ UNCHANGED chunkRows
  /\ UNCHANGED <<queryVars, fnIn, fnOut, lance, tableHandle, pool, documents, jobs>>

\* Bull when the handler's promise is rejected: the job is retried until it
\* has been attempted `attempts` times
jobFailed(d) ==
  jobs' = [jobs EXCEPT ![d] =
    [state |-> IF @.attemptsMade + 1 < attempts THEN "waiting" ELSE "failed",
     attemptsMade |-> @.attemptsMade + 1]]

\* a handler that enters its catch block after COMPLETED has been written
UpdateCompletedThenCatch(p) ==
  LET d == run[p].doc
  IN /\ run[p].pc = "updateCompleted"
     /\ documents[d].exists
     /\ documents' = [documents EXCEPT ![d].status = "COMPLETED",
                                       ![d].chunksCount = Len(docChunks(d))]
     /\ run' = [run EXCEPT ![p].pc = "catch", ![p].fault = "afterCompleted",
                           ![p].error = "afterCompleted",
                           ![p].writes = Append(@, "COMPLETED")]
     /\ UNCHANGED <<queryVars, fnIn, fnOut, lance, tableHandle, pool, chunkRows, jobs>>

\* await prisma.document.update({ data: { status: COMPLETED, chunksCount } });
\* the handler then returns { success: true } and Bull completes the job
UpdateCompleted(p) ==
  LET d == run[p].doc
  IN /\ run[p].pc = "updateCompleted"
     /\ \/ /\ documents[d].exists
           /\ documents' = [documents EXCEPT ![d].status = "COMPLETED",
                                             ![d].chunksCount = Len(docChunks(d))]
           /\ wrote(p, "COMPLETED", "returned")
           /\ jobs' = [jobs EXCEPT ![d].state = "completed"]
        \/ /\ ~documents[d].exists
           /\ toCatch(p, "updateCompleted", FALSE)
           /\ UNCHANGED <<documents, jobs>>
        \/ /\ toCatch(p, "updateCompleted", TRUE)
           /\ UNCHANGED <<documents, jobs>>
     /\ UNCHANGED <<queryVars, fnIn, fnOut, lance, tableHandle, pool, chunkRows>>

\* catch (error) { await prisma.document.update({ data: { status: FAILED,
\* processingError: error.message } }); throw error }: when the update throws,
\* its error is the one the handler is rejected with
Catch(p) ==
  LET d == run[p].doc
  IN /\ run[p].pc = "catch"
     /\ \/ /\ documents[d].exists
           /\ documents' = [documents EXCEPT ![d].status = "FAILED",
                                             ![d].processingError = run[p].fault]
           /\ wrote(p, "FAILED", "thrown")
        \/ /\ ~documents[d].exists
           /\ run' = [run EXCEPT ![p].pc = "thrown", ![p].error = "catch.update"]
           /\ UNCHANGED documents
        \/ /\ run' = [run EXCEPT ![p].pc = "thrown", ![p].error = "catch.update",
                                 ![p].injected = TRUE]
           /\ UNCHANGED documents
     /\ jobFailed(d)
     /\ UNCHANGED <<queryVars, fnIn, fnOut, lance, tableHandle, pool, chunkRows>>

processDocument(p) ==
  \/ FindUnique(p)
  \/ UpdateProcessing(p)
  \/ ExtractText(p)
  \/ EmbedBatch(p)
  \/ CreateChunk(p)
  \/ AddChunks(p)
  \/ UpdateMany(p)
  \/ UpdateCompleted(p)
  \/ Catch(p)

Init ==
  /\ fnIn = NoCall
  /\ fnOut = NoCall
  /\ pool = {"d1", "d2"}
  /\ InitStores

Next ==
  \/ \E d \in DocIds : Upload(d)
  \/ \E d \in DocIds : DeleteDocument(d)
  \/ \E p \in Procs, d \in DocIds : TakeJob(p, d)
  \/ \E p \in Procs : processDocument(p)

Spec == Init /\ [][Next]_vars

\* the same system with only the long document to upload
InitBatch ==
  /\ fnIn = NoCall
  /\ fnOut = NoCall
  /\ pool = {"d3"}
  /\ InitStores

SpecBatch == InitBatch /\ [][Next]_vars

\* two server processes, each with its worker, started on an empty data
\* directory; no document is deleted and no failed job is retried
InitWorkers ==
  /\ fnIn = NoCall
  /\ fnOut = NoCall
  /\ pool = {"d1", "d2"}
  /\ lance = NoTable
  /\ tableHandle = [p \in Procs |-> FALSE]
  /\ documents = [d \in DocIds |-> NoDocument]
  /\ chunkRows = {}
  /\ jobs = [d \in DocIds |-> NoJob]
  /\ run = [p \in Procs |-> Idle]
  /\ queries = {}
  /\ queryResults = {}
  /\ citations = {}

\* the first attempt of each job is followed to its end
NextWorkers ==
  \/ \E d \in DocIds : Upload(d)
  \/ \E p \in Procs, d \in DocIds : jobs[d].attemptsMade = 0 /\ TakeJob(p, d)
  \/ \E p \in Procs : processDocument(p)

SpecWorkers == InitWorkers /\ [][NextWorkers]_vars

(***************************************************************************)
(* Calls of the chunker on bounded inputs.                                 *)
(***************************************************************************)
MaxLen == 6
MaxChunkSize == 4
MaxOverlap == 4

RECURSIVE StringsUpTo(_)
StringsUpTo(n) ==
  IF n = 0 THEN {<<>>}
  ELSE LET shorter == StringsUpTo(n - 1)
       IN shorter \cup {Append(s, c) : s \in {t \in shorter : Len(t) = n - 1}, c \in Symbols}

InitChunk ==
  /\ fnIn \in [fn : {"chunkTextBySentences"}, text : StringsUpTo(MaxLen),
               chunkSize : 1..MaxChunkSize, overlap : 0..MaxOverlap]
  /\ fnOut = NoCall
  /\ pool = {}
  /\ InitStores

CallChunkTextBySentences ==
  /\ fnIn.fn = "chunkTextBySentences"
  /\ fnOut = NoCall
  /\ fnOut' = [fn |-> "chunkTextBySentences",
               buffers |-> sentenceBuffers(fnIn.text, fnIn.chunkSize, fnIn.overlap),
               chunks |-> chunkTextBySentences(fnIn.text, fnIn.chunkSize, fnIn.overlap)]
  /\ UNCHANGED <<fnIn, indexVars, storeVars>>

NextChunk == CallChunkTextBySentences

SpecChunk == InitChunk /\ [][NextChunk]_vars

(***************************************************************************)
(* chunking.ts chunkText, one action per iteration of its while-loop.      *)
(***************************************************************************)
MaxTokens == 4

\* encoder.encode(text): one token id per symbol of the modelled alphabet
encode(text) ==
  [k \in 1..Len(text) |->
     CASE text[k] = "w" -> 1 [] text[k] = "." -> 2 [] OTHER -> 3]

\* new TextDecoder().decode(encoder.decode(chunkTokens))
decode(tokens) ==
  [k \in 1..Len(tokens) |->
     CASE tokens[k] = 1 -> "w" [] tokens[k] = 2 -> "." [] OTHER -> " "]

\* tokens.slice(startIdx, endIdx), indices from 0
slice(tokens, startIdx, endIdx) == SubSeq(tokens, startIdx + 1, endIdx)

min(a, b) == IF a < b THEN a ELSE b

nextStartNoOverlap(startIdx, chunkSize, overlap) == startIdx + chunkSize

\* startIdx += chunkSize - overlap
nextStart(startIdx, chunkSize, overlap) == startIdx + chunkSize - overlap

InitChunkText ==
  /\ fnIn \in {c \in [fn : {"chunkText"}, text : StringsUpTo(MaxTokens),
                      chunkSize : 1..MaxChunkSize, overlap : 0..MaxOverlap] :
                 c.overlap <= c.chunkSize}
  /\ fnOut = NoCall
  /\ pool = {}
  /\ InitStores

\* chunkText is called: const tokens = encoder.encode(text); chunks = [];
\* startIdx = 0.  `starts` lists the startIdx of each chunk pushed.
CallChunkText ==
  /\ fnIn.fn = "chunkText"
  /\ fnOut = NoCall
  /\ fnOut' = [fn |-> "chunkText", pc |-> "while", tokens |-> encode(fnIn.text),
               startIdx |-> 0, chunks |-> <<>>, starts |-> <<>>]
  /\ UNCHANGED <<fnIn, indexVars, storeVars>>

\* while (startIdx < tokens.length) { ...; if (endIdx === tokens.length) break }
\* return chunks.  An input that makes the loop run on is followed for
\* MaxTokens + 1 iterations.
ChunkTextIteration ==
  /\ fnOut.fn = "chunkText"
  /\ fnOut.pc = "while"
  /\ Len(fnOut.chunks) <= MaxTokens
  /\ LET tokens == fnOut.tokens
         startIdx == fnOut.startIdx
         endIdx == min(startIdx + fnIn.chunkSize, Len(tokens))
         chunkTokens == slice(tokens, startIdx, endIdx)
     IN IF startIdx < Len(tokens)
        THEN fnOut' = [fnOut EXCEPT
               !.chunks = Append(@, [text |-> trim(decode(chunkTokens)),
                                     tokenCount |-> Len(chunkTokens)]),
               !.starts = Append(@, startIdx),
               !.startIdx = nextStart(startIdx, fnIn.chunkSize, fnIn.overlap),
               !.pc = IF endIdx = Len(tokens) THEN "return" ELSE "while"]
        ELSE fnOut' = [fnOut EXCEPT !.pc = "return"]
  /\ UNCHANGED <<fnIn, indexVars, storeVars>>

NextChunkText == CallChunkText \/ ChunkTextIteration

\* a call that has started runs on until it returns
SpecChunkText ==
  InitChunkText /\ [][NextChunkText]_vars /\ WF_vars(NextChunkText)

(***************************************************************************)
(* Direct calls of the vector index service on bounded inputs.             *)
(***************************************************************************)
MaxRows == 2

Tickers == {"TSLA", "AAPL"}

DocumentTypes == {"FILING_10K", "FILING_10Q"}

\* the documents of the service calls
IndexDocs == {"d1", "d2"}

\* chunks a caller may hand to addChunks
ChunkInputs ==
  {[id |-> id, text |-> <<"w", ".">>, embedding |-> v,
    metadata |-> [documentId |-> d, companyId |-> TickerOf(d),
                  companyTicker |-> TickerOf(d), documentType |-> TypeOf(d),
                  chunkIndex |-> 0]] :
     id \in {"a", "b"}, v \in 0..1, d \in IndexDocs}

SearchOptions ==
  [limit : {Undefined, Some(1)},
   companyFilter : {Undefined} \cup {Some(t) : t \in Tickers},
   documentTypes : {Undefined, Some(<<>>), Some(<<"FILING_10K">>), Some(<<"FILING_10Q">>),
                    Some(<<"FILING_10K", "FILING_10Q">>)}]

InitIndex ==
  /\ fnIn = NoCall
  /\ fnOut = NoCall
  /\ pool = {}
  /\ InitStores

CallAddChunks ==
  \E p \in Started, c1 \in ChunkInputs, n \in 1..2 :
   \E c2 \in {c \in ChunkInputs : c.metadata.documentId = c1.metadata.documentId} :
    LET chunks == IF n = 1 THEN <<c1>> ELSE <<c1, c2>>
    IN /\ Len(lance.rows) + n <= MaxRows
       /\ fnIn' = [fn |-> "addChunks", chunks |-> chunks]
       /\ \/ /\ addChunksOk(p, chunks)
             /\ fnOut' = [fn |-> "addChunks", threw |-> FALSE]
          \/ /\ addChunksFail(p, chunks)
             /\ fnOut' = [fn |-> "addChunks", threw |-> TRUE]
       /\ UNCHANGED storeVars

CallSearchSimilarChunks ==
  \E p \in Started, v \in 0..1, options \in SearchOptions :
    /\ fnIn' = [fn |-> "searchSimilarChunks", queryEmbedding |-> v, options |-> options]
    /\ fnOut' = [fn |-> "searchSimilarChunks",
                 result |-> searchSimilarChunks(p, v, options)]
    /\ UNCHANGED <<indexVars, storeVars>>

CallDeleteChunksByDocument ==
  \E p \in Started, d \in IndexDocs :
    /\ fnIn' = [fn |-> "deleteChunksByDocument", documentId |-> d]
    /\ fnOut' = [fn |-> "deleteChunksByDocument", threw |-> FALSE]
    /\ deleteChunksByDocument(p, d)
    /\ UNCHANGED storeVars

NextIndex ==
  \/ CallAddChunks
  \/ CallSearchSimilarChunks
  \/ CallDeleteChunksByDocument

SpecIndex == InitIndex /\ [][NextIndex]_vars

(***************************************************************************)
(* services/ai.service.ts.  The content of a chat completion is a sequence *)
(* of pieces, a piece being either text without a citation marker          *)
(* (Undefined) or the marker "[k]" (Some(k)); the empty sequence is an     *)
(* empty or missing content.                                               *)
(***************************************************************************)
MaxMarker == 3

MaxAnswerLen == 2

Pieces == {Undefined} \cup {Some(k) : k \in 0..MaxMarker}

Contents == UNION {[1..n -> Pieces] : n \in 0..MaxAnswerLen}

\* the text 'No answer generated'
NoAnswerGenerated == <<Undefined, Undefined, Undefined>>

contextTextFromZero(context) ==
  [idx \in 1..Len(context) |-> [marker |-> idx - 1, chunk |-> context[idx]]]

\* context.map((chunk, idx) => `[${idx + 1}] ${chunk}`): the numbered blocks
\* of the user prompt
contextText(context) ==
  [idx \in 1..Len(context) |-> [marker |-> idx, chunk |-> context[idx]]]

\* generateAnswer(query, context) when the chat completion returns `content`:
\* response.choices[0]?.message?.content || 'No answer generated'
generateAnswer(query, context, content) ==
  IF content = <<>> THEN NoAnswerGenerated ELSE content

RECURSIVE sortAscending(_)
\* Array.from(set).sort((a, b) => a - b)
sortAscending(set) ==
  IF set = {} THEN <<>>
  ELSE LET least == CHOOSE a \in set : \A b \in set : a <= b
       IN <<least>> \o sortAscending(set \ {least})

\* extractCitations(answer): the numbers of the markers /\[(\d+)\]/g of the
\* answer, each once, in ascending order
extractCitations(answer) ==
  sortAscending({ValueOf(answer[k]) : k \in {j \in 1..Len(answer) : Given(answer[j])}})

(***************************************************************************)
(* services/query.service.ts processQuery behind POST /api/query, as one   *)
(* step.  A call of a collaborator may throw.                              *)
(***************************************************************************)
\* config/openai.ts TOP_K_CHUNKS
TOP_K_CHUNKS == 5

\* dbChunks.find(dc => dc.lanceId === id): the row as an option
findDbChunk(dbChunks, id) ==
  IF \E r \in dbChunks : r.lanceId = id
  THEN Some(CHOOSE r \in dbChunks : r.lanceId = id)
  ELSE Undefined

\* const context = similarChunks.map(sc => dbChunk?.text || sc.text)
contextOf(similarChunks, dbChunks) ==
  [k \in 1..Len(similarChunks) |->
     LET dbChunk == findDbChunk(dbChunks, similarChunks[k].id)
     IN IF Given(dbChunk) /\ ValueOf(dbChunk).text # <<>>
        THEN ValueOf(dbChunk).text
        ELSE similarChunks[k].text]

chunkIdxSame(citationIndex) == citationIndex

\* const chunkIdx = citationIndex - 1 (from 1-based to 0-based)
chunkIdxOf(citationIndex) == citationIndex - 1

\* the citations processQuery creates for citationIndexes[1..k], in order: one
\* for every index whose chunkIdx is within similarChunks and whose chunk has
\* a row in dbChunks
RECURSIVE citationsFor(_, _, _, _)
citationsFor(citationIndexes, k, similarChunks, dbChunks) ==
  IF k = 0 THEN <<>>
  ELSE LET before == citationsFor(citationIndexes, k - 1, similarChunks, dbChunks)
           citationIndex == citationIndexes[k]
           chunkIdx == chunkIdxOf(citationIndex)
       IN IF chunkIdx >= 0 /\ chunkIdx < Len(similarChunks)
          THEN LET similarChunk == similarChunks[chunkIdx + 1]
                   dbChunk == findDbChunk(dbChunks, similarChunk.id)
               IN IF Given(dbChunk)
                  THEN Append(before,
                         [documentId |-> ValueOf(dbChunk).documentId,
                          chunkId |-> ValueOf(dbChunk).lanceId,
                          relevanceScore |-> similarChunk.score,
                          citationIndex |-> citationIndex])
                  ELSE before
          ELSE before

\* limit: options.limit ?? TOP_K_CHUNKS, the limit handed to the search
searchLimit(options) ==
  IF Given(options.limit) THEN ValueOf(options.limit) ELSE TOP_K_CHUNKS

\* the handler is rejected with an error of this message; `retrieved` is the
\* length of similarChunks once the search has returned
queryThrew(options, message, retrieved) ==
  /\ fnIn' = [fn |-> "processQuery", options |-> options]
  /\ fnOut' = [fn |-> "processQuery", threw |-> TRUE, message |-> message,
               retrieved |-> retrieved,
               limit |-> IF Given(retrieved) THEN Some(searchLimit(options))
                         ELSE Undefined]

\* POST /api/query with body `options`; `failing` is the call that throws
\* ("none": no call does), `content` the content of the chat completion and
\* `created` how many citation rows are written before citation.create throws
ProcessQuery(p, options, failing, content, created) ==
  LET queryEmbedding == Embedding(options.queryText)
      similarChunks ==
        searchSimilarChunks(p, queryEmbedding,
          [limit |-> Some(searchLimit(options)),
           companyFilter |-> options.companyFilter,
           documentTypes |-> options.documentTypes])
      chunkIds == {similarChunks[k].id : k \in 1..Len(similarChunks)}
      dbChunks == {r \in chunkRows : r.lanceId \in chunkIds}
      context == contextOf(similarChunks, dbChunks)
      answer == generateAnswer(options.queryText, context, content)
      citationIndexes == extractCitations(answer)
      all == citationsFor(citationIndexes, Len(citationIndexes), similarChunks, dbChunks)
      queryRow == [queryText |-> options.queryText,
                   companyFilter |-> options.companyFilter,
                   documentTypes |-> IF Given(options.documentTypes)
                                     THEN ValueOf(options.documentTypes) ELSE <<>>]
      resultRow == [answer |-> answer, chunksRetrieved |-> Len(similarChunks)]
  IN IF Len(trim(options.queryText)) = 0
     THEN /\ queryThrew(options, "queryText is required", Undefined)
          /\ UNCHANGED queryVars
     ELSE IF failing = "query.create"
     THEN /\ queryThrew(options, failing, Undefined)
          /\ UNCHANGED queryVars
     ELSE /\ queries' = {queryRow}
          /\ IF failing \in {"generateEmbedding", "searchSimilarChunks"}
             THEN /\ queryThrew(options, failing, Undefined)
                  /\ queryResults' = {} /\ citations' = {}
             ELSE IF Len(similarChunks) = 0
             THEN /\ queryThrew(options, "No relevant documents found for this query", Some(0))
                  /\ queryResults' = {} /\ citations' = {}
             ELSE IF failing \in {"documentChunk.findMany", "generateAnswer"}
             THEN /\ queryThrew(options, failing, Some(Len(similarChunks)))
                  /\ queryResults' = {} /\ citations' = {}
             ELSE IF failing = "queryResult.create"
             THEN /\ queryThrew(options, failing, Some(Len(similarChunks)))
                  /\ queryResults' = {} /\ citations' = {}
             ELSE IF failing = "citation.create"
             THEN /\ created < Len(all)
                  /\ queryThrew(options, failing, Some(Len(similarChunks)))
                  /\ queryResults' = {resultRow}
                  /\ citations' = {all[k] : k \in 1..created}
             ELSE /\ fnIn' = [fn |-> "processQuery", options |-> options]
                  /\ fnOut' = [fn |-> "processQuery", threw |-> FALSE,
                               retrieved |-> Some(Len(similarChunks)),
                               limit |-> Some(searchLimit(options)),
                               similarChunks |-> similarChunks,
                               prompt |-> contextText(context),
                               data |-> [answer |-> answer, citations |-> all,
                                         chunksRetrieved |-> Len(similarChunks)]]
                  /\ queryResults' = {resultRow}
                  /\ citations' = {all[k] : k \in 1..Len(all)}

QueryTexts == {<<" ">>, <<"w">>}

QueryOptions ==
  [queryText : QueryTexts,
   limit : {Undefined, Some(0), Some(1)},
   companyFilter : {Undefined} \cup {Some(t) : t \in Tickers},
   documentTypes : {Undefined}]

\* the stores once the documents of `ingested` have been processed, d1 first
completedRow(d) ==
  [exists |-> TRUE, status |-> "COMPLETED", processingError |-> "null",
   chunksCount |-> Len(docChunks(d))]

storedChunks(d) ==
  {[documentId |-> d, chunkIndex |-> i, lanceId |-> lanceIdOf(d, i),
    text |-> docChunks(d)[i + 1].text, embeddingStored |-> TRUE] :
     i \in 0..(Len(docChunks(d)) - 1)}

indexedRows(d) == [k \in 1..Len(docChunks(d)) |-> flatten(chromaChunks(d)[k])]

InitQuery ==
  \E ingested \in SUBSET {"d1", "d2"} :
    /\ fnIn = NoCall
    /\ fnOut = NoCall
    /\ pool = {}
    /\ lance = [exists |-> ingested # {},
                rows |-> (IF "d1" \in ingested THEN indexedRows("d1") ELSE <<>>)
                           \o (IF "d2" \in ingested THEN indexedRows("d2") ELSE <<>>)]
    /\ tableHandle = [p \in Procs |-> ingested # {}]
    /\ documents = [d \in DocIds |->
                      IF d \in ingested THEN completedRow(d) ELSE NoDocument]
    /\ chunkRows = UNION {storedChunks(d) : d \in ingested}
    /\ jobs = [d \in DocIds |->
                 IF d \in ingested THEN [state |-> "completed", attemptsMade |-> 0]
                 ELSE NoJob]
    /\ run = [p \in Procs |-> IF p = "p1" THEN Idle ELSE Off]
    /\ queries = {}
    /\ queryResults = {}
    /\ citations = {}

\* one request; the chat completion is reached when no earlier call throws,
\* citation.create when the result row has been written
CallProcessQuery ==
  /\ fnOut = NoCall
  /\ \E p \in Started, options \in QueryOptions :
       \/ \E failing \in {"none", "query.create", "generateEmbedding",
                          "searchSimilarChunks", "documentChunk.findMany",
                          "generateAnswer"} :
            ProcessQuery(p, options, failing, <<>>, 0)
       \/ \E failing \in {"none", "queryResult.create"}, content \in Contents \ {<<>>} :
            ProcessQuery(p, options, failing, content, 0)
       \/ \E content \in Contents, created \in 0..(MaxAnswerLen - 1) :
            ProcessQuery(p, options, "citation.create", content, created)
  /\ UNCHANGED <<indexVars, pool, documents, chunkRows, jobs, run>>

\* addChunks called once more with the chunks of a document that is indexed
\* once, before the request
AddChunksAgain(p, d) ==
  /\ fnOut = NoCall
  /\ Cardinality(entriesOf(d)) = Len(docChunks(d))
  /\ entriesOf(d) # {}
  /\ addChunksOk(p, chromaChunks(d))
  /\ UNCHANGED <<fnIn, fnOut, storeVars>>

NextQuery ==
  \/ CallProcessQuery
  \/ \E d \in DocIds : DeleteDocument(d)
  \/ \E p \in Started, d \in DocIds : AddChunksAgain(p, d)

SpecQuery == InitQuery /\ [][NextQuery]_vars

\* generateAnswer called directly
MaxContext == 2

ContextBlocks == {<<"w", ".">>, <<"w", "w", ".">>}

InitAnswer ==
  /\ fnIn \in [fn : {"generateAnswer"}, query : {<<"w">>},
               context : UNION {[1..n -> ContextBlocks] : n \in 0..MaxContext}]
  /\ fnOut = NoCall
  /\ pool = {}
  /\ InitStores

\* the chat completion is requested with the prompt built from the context;
\* it returns a content or throws
CallGenerateAnswer ==
  /\ fnOut = NoCall
  /\ \/ \E content \in Contents :
          fnOut' = [fn |-> "generateAnswer", invoked |-> TRUE, threw |-> FALSE,
                    prompt |-> contextText(fnIn.context),
                    answer |-> generateAnswer(fnIn.query, fnIn.context, content)]
     \/ fnOut' = [fn |-> "generateAnswer", invoked |-> TRUE, threw |-> TRUE,
                  prompt |-> contextText(fnIn.context),
                  answer |-> <<>>]
  /\ UNCHANGED <<fnIn, indexVars, storeVars>>

NextAnswer == CallGenerateAnswer

SpecAnswer == InitAnswer /\ [][NextAnswer]_vars

(***************************************************************************)
(* Properties.                                                             *)
(***************************************************************************)
RECURSIVE concatAll(_)
concatAll(parts) ==
  IF parts = <<>> THEN <<>> ELSE Head(parts) \o concatAll(Tail(parts))

RECURSIVE sumTokens(_)
sumTokens(parts) ==
  IF parts = <<>> THEN 0 ELSE countTokens(Head(parts)) + sumTokens(Tail(parts))

lastSentences(parts, n) == SubSeq(parts, Len(parts) - n + 1, Len(parts))

\* the sentences of a buffer that were not carried over from the previous one
nonOverlap(b) == SubSeq(b.sents, b.carried + 1, Len(b.sents))

runEnded(p) == run[p].pc \in {"returned", "thrown"}

duplicateIds == \E j, k \in 1..Len(lance.rows) : j # k /\ lance.rows[j].id = lance.rows[k].id

\* C1: re-ingestion is idempotent.  Whenever a run of processDocument in
\* which no collaborator failed has ended for a document that still exists
\* (a first run or a Bull retry), the document is COMPLETED with the chunk
\* count of its text, the index holds exactly that many entries for it and
\* no chunk id twice.
C1_IdempotentReingestion ==
  \A p \in Procs :
    LET d == run[p].doc
    IN (runEnded(p) /\ ~run[p].injected /\ documents[d].exists) =>
         /\ documents[d].status = "COMPLETED"
         /\ documents[d].chunksCount = Len(docChunks(d))
         /\ Cardinality(entriesOf(d)) = Len(docChunks(d))
         /\ ~duplicateIds

\* C4: chunk records and index entries are deleted together.  A document
\* removed through DELETE /api/documents/:id has neither chunk records nor
\* vector-index entries left.
C4_DeletedTogether ==
  \A d \in DocIds :
    (d \notin pool /\ ~documents[d].exists) =>
      /\ rowsOf(d) = {}
      /\ entriesOf(d) = {}

\* C5: a failed embedding batch fails the whole ingestion.  When a run whose
\* generateEmbeddingsBatch call failed ends, the document (if it still
\* exists) is FAILED and the run has written no vector-index entry.
C5_EmbeddingFailureFails ==
  [][\A p \in Procs :
       (/\ run[p].pc = "catch"
        /\ run[p].fault = "generateEmbeddingsBatch"
        /\ run'[p].pc = "thrown"
        /\ documents[run[p].doc].exists) =>
          /\ documents'[run[p].doc].status = "FAILED"
          /\ ~run'[p].indexed]_vars

\* C8: chunk coverage.  The non-overlap portions of the chunks, concatenated
\* in order, are the whole input text: no sentence and no trailing text is
\* dropped.
C8_ChunkCoverage ==
  fnOut.fn = "chunkTextBySentences" =>
    concatAll(concatAll([k \in 1..Len(fnOut.buffers) |-> nonOverlap(fnOut.buffers[k])]))
      = fnIn.text

\* C9: overlap bound.  The sentences a chunk carries over are the last
\* sentences of the chunk before it and count at most `overlap` tokens,
\* joined as well as summed; when the last sentences of a chunk do not fit
\* the overlap, the next chunk carries none.
C9_OverlapBound ==
  fnOut.fn = "chunkTextBySentences" =>
    \A k \in 1..Len(fnOut.buffers) :
      LET b == fnOut.buffers[k]
          carriedSents == SubSeq(b.sents, 1, b.carried)
      IN /\ b.carried < Len(b.sents)
         /\ k = 1 => b.carried = 0
         /\ k > 1 =>
              LET prev == fnOut.buffers[k - 1].sents
              IN /\ b.carried <= Len(prev)
                 /\ carriedSents = lastSentences(prev, b.carried)
                 /\ countTokens(join(carriedSents)) <= fnIn.overlap
                 /\ sumTokens(carriedSents) <= fnIn.overlap
                 /\ countTokens(join(sliceLast3(prev))) > fnIn.overlap => b.carried = 0

C9_Witness ==
  /\ fnOut.fn = "chunkTextBySentences"
  /\ \E k \in 2..Len(fnOut.buffers) :
       /\ fnOut.buffers[k].carried > 0
       /\ countTokens(join(sliceLast3(fnOut.buffers[k - 1].sents))) = fnIn.overlap - 1

\* C3: filter correctness.  Every candidate searchSimilarChunks returns has
\* the company ticker of companyFilter when one is given and a document type
\* among documentTypes when a non-empty list is given; with no filter no row
\* is excluded.
C3_FilterCorrectness ==
  fnOut.fn = "searchSimilarChunks" =>
    LET o == fnIn.options
        res == fnOut.result
    IN /\ \A k \in 1..Len(res) :
            /\ Given(o.companyFilter) =>
                 res[k].metadata.companyTicker = ValueOf(o.companyFilter)
            /\ (Given(o.documentTypes) /\ Len(ValueOf(o.documentTypes)) > 0) =>
                 \E j \in 1..Len(ValueOf(o.documentTypes)) :
                   res[k].metadata.documentType = ValueOf(o.documentTypes)[j]
       /\ (~Given(o.companyFilter) /\ ~Given(o.documentTypes) /\ ~Given(o.limit)
             /\ Len(lance.rows) <= 5) =>
            Len(res) = Len(lance.rows)

\* C10: index writes are idempotent by chunk id.  The index never holds two
\* entries with the same id.
C10_OneEntryPerId == ~duplicateIds

\* C2: citation bounds.  Every citation row processQuery stores and every
\* citation it returns has a citationIndex between 1 and the number of
\* candidates retrieved, whatever the answer of the language model is.
C2_CitationBounds ==
  fnOut.fn = "processQuery" =>
    /\ \A c \in citations :
         /\ Given(fnOut.retrieved)
         /\ 1 <= c.citationIndex
         /\ c.citationIndex <= ValueOf(fnOut.retrieved)
    /\ ~fnOut.threw =>
         /\ fnOut.data.chunksRetrieved >= 1
         /\ \A k \in 1..Len(fnOut.data.citations) :
              /\ 1 <= fnOut.data.citations[k].citationIndex
              /\ fnOut.data.citations[k].citationIndex <= fnOut.data.chunksRetrieved

C2_Witness ==
  /\ fnOut.fn = "processQuery"
  /\ ~fnOut.threw
  /\ Len(fnOut.data.citations) >= 1
  /\ citations # {}
  /\ \E k \in 1..Len(fnOut.data.answer) :
       /\ Given(fnOut.data.answer[k])
       /\ ValueOf(fnOut.data.answer[k]) > fnOut.data.chunksRetrieved

\* C6: a query whose retrieval returns zero candidates is answered, not
\* rejected: processQuery returns a response instead of throwing.
C6_NoResultsIsAnswered ==
  (/\ fnOut.fn = "processQuery"
   /\ Given(fnOut.retrieved)
   /\ ValueOf(fnOut.retrieved) = 0) => ~fnOut.threw

\* C7: empty-context short-circuit.  generateAnswer called with zero context
\* blocks does not request a chat completion and does not fail.
C7_EmptyContextShortCircuit ==
  (fnOut.fn = "generateAnswer" /\ Len(fnIn.context) = 0) =>
    /\ ~fnOut.invoked
    /\ ~fnOut.threw

\* the row satisfies every filter the options supply
satisfiesAll(row, options) ==
  /\ (Given(options.companyFilter) /\ ValueOf(options.companyFilter) # "") =>
       row.companyTicker = ValueOf(options.companyFilter)
  /\ (Given(options.documentTypes) /\ Len(ValueOf(options.documentTypes)) > 0) =>
       \E j \in 1..Len(ValueOf(options.documentTypes)) :
         row.documentType = ValueOf(options.documentTypes)[j]

limitOf(options) == IF Given(options.limit) THEN ValueOf(options.limit) ELSE 5

\* C11: searchSimilarChunks returns at most `limit` candidates (5 when none
\* is given), nearest first, and the entries satisfying the filters that are
\* strictly nearer than the last candidate returned are all among the
\* candidates.
C11_LimitAndOrder ==
  fnOut.fn = "searchSimilarChunks" =>
    LET res == fnOut.result
        v == fnIn.queryEmbedding
    IN /\ Len(res) <= limitOf(fnIn.options)
       /\ \A k \in 1..(Len(res) - 1) : res[k].score <= res[k + 1].score
       /\ \A k \in 1..Len(res) :
            Cardinality({i \in 1..Len(lance.rows) :
                           /\ satisfiesAll(lance.rows[i], fnIn.options)
                           /\ distance(lance.rows[i].vector, v) < res[k].score})
              <= Cardinality({j \in 1..Len(res) : res[j].score < res[k].score})

C11_Witness ==
  /\ fnOut.fn = "searchSimilarChunks"
  /\ Len(fnOut.result) = limitOf(fnIn.options)
  /\ \E i \in 1..Len(lance.rows) :
       /\ satisfiesAll(lance.rows[i], fnIn.options)
       /\ distance(lance.rows[i].vector, fnIn.queryEmbedding) > fnOut.result[1].score

\* C12: citation numbering follows retrieval order.  In a query that
\* completes, the k-th block of the prompt is numbered k and is the text of
\* the k-th candidate of the search, and a citation with citationIndex k,
\* returned or stored, references the chunk of that k-th candidate and
\* carries its score.
C12_NumberingFollowsRetrieval ==
  (fnOut.fn = "processQuery" /\ ~fnOut.threw) =>
    LET sc == fnOut.similarChunks
        refersTo(c) ==
          /\ c.citationIndex \in 1..Len(sc)
          /\ c.chunkId = sc[c.citationIndex].id
          /\ c.relevanceScore = sc[c.citationIndex].score
          /\ c.documentId = sc[c.citationIndex].metadata.documentId
    IN /\ Len(fnOut.prompt) = Len(sc)
       /\ \A k \in 1..Len(sc) :
            /\ fnOut.prompt[k].marker = k
            /\ fnOut.prompt[k].chunk = sc[k].text
       /\ \A k \in 1..Len(fnOut.data.citations) : refersTo(fnOut.data.citations[k])
       /\ \A c \in citations : refersTo(c)

C12_Witness ==
  /\ fnOut.fn = "processQuery"
  /\ ~fnOut.threw
  /\ Len(fnOut.similarChunks) >= 2
  /\ fnOut.similarChunks[1].id # fnOut.similarChunks[2].id
  /\ \E c \in citations : c.citationIndex = 2

\* the numbers of the markers [k] an answer contains
markersOf(answer) == {ValueOf(answer[j]) : j \in {k \in 1..Len(answer) : Given(answer[k])}}

\* C13: every distinct in-range marker is resolved.  In a query that
\* completes with n candidates, the citations returned hold exactly one entry
\* for each k in 1..n that the answer contains as [k].
C13_EveryMarkerResolved ==
  (fnOut.fn = "processQuery" /\ ~fnOut.threw) =>
    LET cs == fnOut.data.citations
    IN \A m \in markersOf(fnOut.data.answer) \cap (1..fnOut.data.chunksRetrieved) :
         Cardinality({k \in 1..Len(cs) : cs[k].citationIndex = m}) = 1

\* C14: unresolvable markers are discarded, not raised.  A query whose answer
\* contains a marker [k] with k < 1 or k above the number of candidates
\* completes, its result row is stored with the answer, and no citation is
\* returned or stored for that marker; processQuery is only ever rejected for
\* an invalid request, an empty retrieval or a failed collaborator.
C14_BadMarkersDiscarded ==
  fnOut.fn = "processQuery" =>
    IF fnOut.threw
    THEN fnOut.message \in
           {"queryText is required", "No relevant documents found for this query",
            "query.create", "generateEmbedding", "searchSimilarChunks",
            "documentChunk.findMany", "generateAnswer", "queryResult.create",
            "citation.create"}
    ELSE \A m \in markersOf(fnOut.data.answer) \ (1..fnOut.data.chunksRetrieved) :
           /\ queryResults = {[answer |-> fnOut.data.answer,
                               chunksRetrieved |-> fnOut.data.chunksRetrieved]}
           /\ \A k \in 1..Len(fnOut.data.citations) :
                fnOut.data.citations[k].citationIndex # m
           /\ \A c \in citations : c.citationIndex # m

C14_Witness ==
  /\ fnOut.fn = "processQuery"
  /\ ~fnOut.threw
  /\ 0 \in markersOf(fnOut.data.answer)
  /\ \E m \in markersOf(fnOut.data.answer) : m > fnOut.data.chunksRetrieved
  /\ queryResults # {}

\* C15: the context is deduplicated by chunk id.  In a query that completes,
\* the prompt holds one block per distinct chunk id among the candidates: no
\* two blocks come from the same id, and candidates with different ids all
\* have their block.
C15_ContextDedupById ==
  (fnOut.fn = "processQuery" /\ ~fnOut.threw) =>
    Len(fnOut.prompt) =
      Cardinality({fnOut.similarChunks[k].id : k \in 1..Len(fnOut.similarChunks)})

\* C16: no orphan index entries.  The id of every vector-index entry is the
\* lanceId of exactly one chunk record.
C16_NoOrphanEntries ==
  \A k \in 1..Len(lance.rows) :
    Cardinality({r \in chunkRows : r.lanceId = lance.rows[k].id}) = 1

\* C17: any stage failure is recorded.  When a run of processDocument ends by
\* throwing, the document is FAILED with a processingError and the handler is
\* rejected with the error of the step that failed.
C17_FailureRecorded ==
  [][\A p \in Procs :
       (run[p].pc = "catch" /\ run'[p].pc = "thrown") =>
          /\ documents'[run[p].doc].status = "FAILED"
          /\ documents'[run[p].doc].processingError # "null"
          /\ run'[p].error = run[p].fault]_vars

\* C18: ingestion is safe to re-run.  When a run of processDocument that
\* follows a failed run for the same document, and in which no collaborator
\* fails on its own, has ended, the document (if it still exists) is
\* COMPLETED.
C18_RerunRecovers ==
  \A p \in Procs :
    LET d == run[p].doc
        failedBefore == jobs[d].attemptsMade - (IF run[p].pc = "thrown" THEN 1 ELSE 0)
    IN (runEnded(p) /\ ~run[p].injected /\ documents[d].exists /\ failedBefore >= 1) =>
         documents[d].status = "COMPLETED"

\* C19: batch embedding is 1:1 and order-preserving.  Every index entry
\* processDocument writes for chunk i of a document holds the text of chunk i
\* and the embedding of that text, and a run that indexed a document wrote
\* one entry per chunk.
C19_EmbeddingOfOwnText ==
  /\ \A k \in 1..Len(lance.rows) :
       LET row == lance.rows[k]
           chunks == docChunks(row.documentId)
       IN /\ row.chunkIndex + 1 \in 1..Len(chunks)
          /\ row.text = chunks[row.chunkIndex + 1].text
          /\ row.vector = Embedding(row.text)
  /\ \A p \in Procs :
       run[p].indexed => Cardinality(entriesOf(run[p].doc)) = Len(docChunks(run[p].doc))

C19_Witness ==
  /\ \E p \in Procs : run[p].indexed /\ Len(docChunks(run[p].doc)) > batchSize
  /\ \E j, k \in 1..Len(lance.rows) : lance.rows[j].vector # lance.rows[k].vector

\* C20: topK is bounded.  The limit processQuery hands to the index search
\* is at least 1, and it is 5 when the request gives none.
C20_LimitPositive ==
  (fnOut.fn = "processQuery" /\ Given(fnOut.limit)) =>
    /\ ValueOf(fnOut.limit) >= 1
    /\ ~Given(fnIn.options.limit) => ValueOf(fnOut.limit) = 5

\* C21: status writes are one-way within one processDocument invocation.
\* The statuses an invocation has written are PROCESSING at most once and
\* first, then at most one of COMPLETED and FAILED, and nothing after it.
C21_OneWayStatus ==
  \A p \in Procs :
    run[p].writes \in {<<>>, <<"PROCESSING">>, <<"FAILED">>,
                       <<"PROCESSING", "COMPLETED">>,
                       <<"PROCESSING", "FAILED">>}

\* an invocation that wrote PROCESSING, failed at a later stage and wrote
\* FAILED has been rejected
C21_Witness ==
  \E p \in Procs :
    /\ run[p].pc = "thrown"
    /\ run[p].writes = <<"PROCESSING", "FAILED">>
    /\ run[p].fault = "addChunks"

\* the chunk records of document d are all there, none marked as embedded
rowsAwaitingIndex(rows, d) ==
  /\ {r.chunkIndex : r \in {x \in rows : x.documentId = d}} = 0..(Len(docChunks(d)) - 1)
  /\ \A r \in rows : r.documentId = d => ~r.embeddingStored

\* C23: two-phase store with metadata first.  When processDocument calls
\* addChunks, every chunk record of the document has been written; and when a
\* run whose addChunks call failed ends, the document (if it still exists) is
\* FAILED and its chunk records are all in place with embeddingStored = false.
C23_MetadataFirst ==
  [][\A p \in Procs :
       LET d == run[p].doc
       IN /\ (/\ run[p].pc = "addChunks"
              /\ run'[p].pc # "addChunks"
              /\ documents[d].exists) => rowsAwaitingIndex(chunkRows, d)
          /\ (/\ run[p].pc = "catch"
              /\ run[p].fault = "addChunks"
              /\ run'[p].pc = "thrown"
              /\ documents'[d].exists) =>
                /\ documents'[d].status = "FAILED"
                /\ rowsAwaitingIndex(chunkRows', d)]_vars

\* C24: chunk size bound.  The sentences of every chunk count at most
\* chunkSize tokens together, unless the chunk is one sentence that alone
\* exceeds chunkSize (emitted whole, with no carried-over sentence).
C24_ChunkSizeBound ==
  fnOut.fn = "chunkTextBySentences" =>
    \A k \in 1..Len(fnOut.buffers) :
      LET b == fnOut.buffers[k]
      IN \/ sumTokens(b.sents) <= fnIn.chunkSize
         \/ /\ Len(b.sents) = 1
            /\ b.carried = 0
            /\ countTokens(b.sents[1]) > fnIn.chunkSize

\* C25: concurrent ingestions do not interfere.  When two workers have each
\* run the first attempt of a different document to its end, and no
\* collaborator failed on its own, both documents are COMPLETED and the index
\* holds one entry per chunk of each.
C25_WorkersIndependent ==
  \A p, q \in Procs :
    LET firstAttempt(x) ==
          /\ runEnded(x)
          /\ ~run[x].injected
          /\ jobs[run[x].doc].attemptsMade = IF run[x].pc = "thrown" THEN 1 ELSE 0
    IN (p # q /\ firstAttempt(p) /\ firstAttempt(q)) =>
         \A d \in {run[p].doc, run[q].doc} :
           /\ documents[d].status = "COMPLETED"
           /\ Cardinality(entriesOf(d)) = Len(docChunks(d))

\* C26: a completed document reports no error.  Every document whose status
\* is COMPLETED has no processingError.
C26_CompletedHasNoError ==
  \A d \in DocIds :
    documents[d].status = "COMPLETED" => documents[d].processingError = "null"

\* C27: a failed document is not searchable.  A document whose status is
\* FAILED has no entry in the vector index.
C27_FailedNotIndexed ==
  \A d \in DocIds :
    documents[d].status = "FAILED" => entriesOf(d) = {}

\* C28: a failed query leaves no result behind.  When processQuery has thrown
\* there is no QueryResult row and no Citation row of the request; when it has
\* returned there is exactly one QueryResult row.
C28_FailedQueryLeavesNothing ==
  fnOut.fn = "processQuery" =>
    IF fnOut.threw
    THEN queryResults = {} /\ citations = {}
    ELSE Cardinality(queryResults) = 1

\* C29: every ingestion reaches a terminal status.  Once the job of a
\* document is finished for good (completed, or failed after its last
\* attempt), the document, if it still exists, is COMPLETED or FAILED: it is
\* not left in PROCESSING.
C29_TerminalStatus ==
  \A d \in DocIds :
    (jobs[d].state \in {"completed", "failed"} /\ documents[d].exists) =>
      documents[d].status \in {"COMPLETED", "FAILED"}

\* C30: chunkText terminates and covers the input.  With 0 <= overlap <
\* chunkSize the call returns; every chunk has at most chunkSize tokens,
\* consecutive chunks start chunkSize - overlap tokens apart, and once the call
\* has returned every token position lies in a chunk.
C30_ChunkTextCovers ==
  LET inDomain == fnIn.fn = "chunkText" /\ fnIn.overlap < fnIn.chunkSize
      running == fnOut.fn = "chunkText"
      n == Len(fnOut.chunks)
      covered(i) ==
        \E k \in 1..n :
          fnOut.starts[k] <= i /\ i < fnOut.starts[k] + fnOut.chunks[k].tokenCount
  IN /\ [](inDomain /\ running =>
            /\ \A k \in 1..n : fnOut.chunks[k].tokenCount <= fnIn.chunkSize
            /\ \A k \in 1..(n - 1) :
                 fnOut.starts[k + 1] = fnOut.starts[k] + fnIn.chunkSize - fnIn.overlap
            /\ fnOut.pc = "return" =>
                 \A i \in 0..(Len(fnOut.tokens) - 1) : covered(i))
     /\ (inDomain ~> (running /\ fnOut.pc = "return"))

\* a returned call that made three chunks or more with an overlap
C30_Witness ==
  /\ fnOut.fn = "chunkText"
  /\ fnOut.pc = "return"
  /\ fnIn.overlap > 0
  /\ fnIn.overlap < fnIn.chunkSize
  /\ Len(fnOut.chunks) >= 3

====
